---------------------------- MODULE Spec2Model ----------------------------
(***************************************************************************)
(* A model of the fixed-point Price arithmetic of pyth-sdk                 *)
(* (pyth-sdk/src/price.rs).                                                *)
(*                                                                         *)
(* The mantissas are 64-bit (and, inside div, 128-bit) integers, wider     *)
(* than the integers of the model checker.  They are therefore kept as     *)
(* exact numerals: a natural number is the sequence of its base-10^4       *)
(* limbs (groups of four decimal digits), least significant limb first,    *)
(* without leading zero limbs; <<>> is 0, <<1615, 955, 737, 6744, 1844>>   *)
(* is 18446744073709551615.  A signed integer is a record [neg, mag]       *)
(* (0 has neg = FALSE).  Exponents (i32) and publish times are ordinary    *)
(* integers; the checked i32 operations test for overflow before they      *)
(* compute.                                                                *)
(***************************************************************************)
EXTENDS Integers, Sequences, FiniteSets, TLC

(***************************************************************************)
(* Exact natural-number arithmetic on numerals.                            *)
(***************************************************************************)
Base == 10^4

\* The numeral with least significant limb d and remaining limbs n.
NCons(d, n) == IF d = 0 /\ n = <<>> THEN <<>> ELSE <<d>> \o n

RECURSIVE NOf(_)
\* The numeral of a natural number of the model checker.
NOf(k) == IF k = 0 THEN <<>> ELSE <<k % Base>> \o NOf(k \div Base)

RECURSIVE NCmpFrom(_, _, _)
\* Compare equally long numerals from limb i downwards: -1, 0 or 1.
NCmpFrom(a, b, i) ==
    IF i = 0 THEN 0
    ELSE IF a[i] < b[i] THEN -1
    ELSE IF a[i] > b[i] THEN 1
    ELSE NCmpFrom(a, b, i - 1)

NCmp(a, b) ==
    IF Len(a) < Len(b) THEN -1
    ELSE IF Len(a) > Len(b) THEN 1
    ELSE NCmpFrom(a, b, Len(a))

NLt(a, b) == NCmp(a, b) < 0
NLe(a, b) == NCmp(a, b) <= 0

RECURSIVE NAddC(_, _, _)
\* a + b + carry.
NAddC(a, b, c) ==
    IF a = <<>> /\ b = <<>> THEN (IF c = 0 THEN <<>> ELSE <<c>>)
    ELSE LET x == IF a = <<>> THEN 0 ELSE Head(a)
             y == IF b = <<>> THEN 0 ELSE Head(b)
             s == x + y + c
         IN  <<s % Base>> \o NAddC(IF a = <<>> THEN <<>> ELSE Tail(a),
                                   IF b = <<>> THEN <<>> ELSE Tail(b),
                                   s \div Base)

NAdd(a, b) == NAddC(a, b, 0)

RECURSIVE NSubB(_, _, _)
\* a - b - borrow, for a >= b + borrow.
NSubB(a, b, w) ==
    IF a = <<>> THEN <<>>
    ELSE LET y == IF b = <<>> THEN 0 ELSE Head(b)
             s == Head(a) - y - w
             d == IF s < 0 THEN s + Base ELSE s
         IN  NCons(d, NSubB(Tail(a), IF b = <<>> THEN <<>> ELSE Tail(b),
                            IF s < 0 THEN 1 ELSE 0))

\* a - b, for a >= b.
NSub(a, b) == NSubB(a, b, 0)

RECURSIVE NMulS(_, _, _)
\* a * s + carry, for a single limb s.
NMulS(a, s, c) ==
    IF a = <<>> THEN NOf(c)
    ELSE LET t == Head(a) * s + c
         IN  NCons(t % Base, NMulS(Tail(a), s, t \div Base))

RECURSIVE NMul(_, _)
NMul(a, b) ==
    IF a = <<>> \/ b = <<>> THEN <<>>
    ELSE NAdd(NMulS(b, Head(a), 0), NCons(0, NMul(Tail(a), b)))

RECURSIVE NQuotLimb(_, _, _, _)
\* The largest q in lo..hi with q * b <= r (lo * b <= r is given), by bisection.
NQuotLimb(r, b, lo, hi) ==
    IF lo = hi THEN lo
    ELSE LET mid == (lo + hi + 1) \div 2
         IN  IF NLe(NMulS(b, mid, 0), r)
             THEN NQuotLimb(r, b, mid, hi)
             ELSE NQuotLimb(r, b, lo, mid - 1)

RECURSIVE NDivModL(_, _)
\* <<a \div b, a % b>> for b > 0, by long division, most significant limb first.
NDivModL(a, b) ==
    IF a = <<>> THEN << <<>>, <<>> >>
    ELSE LET hi == NDivModL(Tail(a), b)
             r  == NCons(Head(a), hi[2])
             q  == NQuotLimb(r, b, 0, Base - 1)
         IN  <<NCons(q, hi[1]), NSub(r, NMulS(b, q, 0))>>

RECURSIVE NDivModS(_, _)
\* <<a \div s, a % s>> for a single limb s > 0, by short division; the
\* remainder is an integer of the model checker.
NDivModS(a, s) ==
    IF a = <<>> THEN << <<>>, 0 >>
    ELSE LET hi == NDivModS(Tail(a), s)
             t  == hi[2] * Base + Head(a)
         IN  <<NCons(t \div s, hi[1]), t % s>>

RECURSIVE NDivMod(_, _)
\* <<a \div b, a % b>> for b > 0.  A divisor with a zero lowest limb is
\* b1 * Base: the quotient is that of the higher limbs of a by b1, and the
\* lowest limb of a goes to the remainder.
NDivMod(a, b) ==
    IF Len(b) = 1
    THEN LET r == NDivModS(a, b[1]) IN <<r[1], NOf(r[2])>>
    ELSE IF a = <<>> THEN << <<>>, <<>> >>
    ELSE IF Head(b) = 0
    THEN LET r == NDivMod(Tail(a), Tail(b))
         IN  <<r[1], NCons(Head(a), r[2])>>
    ELSE NDivModL(a, b)

NDiv(a, b) == NDivMod(a, b)[1]
NMod(a, b) == NDivMod(a, b)[2]

RECURSIVE NPow2(_)
\* 2^k, by repeated squaring.
NPow2(k) ==
    IF k = 0 THEN <<1>>
    ELSE IF k % 2 = 0 THEN LET h == NPow2(k \div 2) IN NMul(h, h)
    ELSE NMulS(NPow2(k - 1), 2, 0)

NZero == <<>>
NOne == <<1>>
NTen == <<10>>

(***************************************************************************)
(* Signed integers.                                                        *)
(***************************************************************************)
ZMake(neg, mag) == [neg |-> neg /\ mag # <<>>, mag |-> mag]
ZOf(k) == IF k < 0 THEN ZMake(TRUE, NOf(0 - k)) ELSE ZMake(FALSE, NOf(k))
ZNeg(x) == ZMake(~x.neg, x.mag)

ZAdd(x, y) ==
    IF x.neg = y.neg THEN ZMake(x.neg, NAdd(x.mag, y.mag))
    ELSE IF NLe(y.mag, x.mag) THEN ZMake(x.neg, NSub(x.mag, y.mag))
    ELSE ZMake(y.neg, NSub(y.mag, x.mag))

ZSub(x, y) == ZAdd(x, ZNeg(y))
ZMul(x, y) == ZMake(x.neg # y.neg, NMul(x.mag, y.mag))
\* Division truncating toward zero, for y # 0.
ZQuot(x, y) == ZMake(x.neg # y.neg, NDiv(x.mag, y.mag))

ZLe(x, y) ==
    IF x.neg /\ ~y.neg THEN TRUE
    ELSE IF ~x.neg /\ y.neg THEN FALSE
    ELSE IF x.neg THEN NLe(y.mag, x.mag)
    ELSE NLe(x.mag, y.mag)

ZLt(x, y) == ZLe(x, y) /\ x # y

(***************************************************************************)
(* The machine integers of the program: i32, i64, u64, u128, with Rust's   *)
(* checked operations (None on overflow or division by zero) and as      *)
(* casts.  An Option is a sequence: None is <<>>, Some(v) is <<v>>; a      *)
(* panic (a failed assertion) is a sequence of length two.                 *)
(***************************************************************************)
None == <<>>
Some(v) == <<v>>
Panic == <<"panicked", "assertion failed: left == right">>
IsSome(o) == Len(o) = 1
\* The ? operator: the function returns None when o is None and carries on
\* with the value of o otherwise; a call that panicked never returns, and
\* the panic unwinds through the caller.
Try(o, F(_)) == IF o = None THEN None ELSE IF o = Panic THEN Panic ELSE F(o[1])

I32_MAX == 2147483647
I32_MIN == -2147483647 - 1
\* 2^64 - 1 = 18446744073709551615
U64_MAX == <<1615, 955, 737, 6744, 1844>>
\* 2^128 - 1 = 340282366920938463463374607431768211455
U128_MAX == <<1455, 6821, 4317, 4607, 6337, 4634, 938, 6692, 2823, 340>>
\* 2^63 - 1 = 9223372036854775807
I64_MAX == [neg |-> FALSE, mag |-> <<5807, 5477, 368, 3372, 922>>]
\* -2^63 = -9223372036854775808
I64_MIN == [neg |-> TRUE, mag |-> <<5808, 5477, 368, 3372, 922>>]
ZZero == [neg |-> FALSE, mag |-> <<>>]
\* 2^64 = 18446744073709551616
TwoTo64 == <<1616, 955, 737, 6744, 1844>>

InI64(z) == ZLe(I64_MIN, z) /\ ZLe(z, I64_MAX)

\* Variant of I32CheckedAdd: a wrapping i32 addition that never fails.
I32WrappingAdd(a, b) ==
    IF b >= 0
    THEN (IF a > I32_MAX - b THEN Some(I32_MIN + (b - 1 - (I32_MAX - a)))
          ELSE Some(a + b))
    ELSE (IF a < I32_MIN - b THEN Some(I32_MAX + (b + 1 + (a - I32_MIN)))
          ELSE Some(a + b))

I32CheckedAdd(a, b) ==
    IF b >= 0
    THEN (IF a > I32_MAX - b THEN None ELSE Some(a + b))
    ELSE (IF a < I32_MIN - b THEN None ELSE Some(a + b))

I32CheckedSub(a, b) ==
    IF b >= 0
    THEN (IF a < I32_MIN + b THEN None ELSE Some(a - b))
    ELSE (IF a > I32_MAX + b THEN None ELSE Some(a - b))

U64CheckedAdd(a, b) ==
    LET r == NAdd(a, b) IN IF NLe(r, U64_MAX) THEN Some(r) ELSE None
U64CheckedMul(a, b) ==
    LET r == NMul(a, b) IN IF NLe(r, U64_MAX) THEN Some(r) ELSE None
U64CheckedDiv(a, b) == IF b = NZero THEN None ELSE Some(NDiv(a, b))

U128CheckedAdd(a, b) ==
    LET r == NAdd(a, b) IN IF NLe(r, U128_MAX) THEN Some(r) ELSE None
U128CheckedMul(a, b) ==
    LET r == NMul(a, b) IN IF NLe(r, U128_MAX) THEN Some(r) ELSE None
U128CheckedDiv(a, b) == IF b = NZero THEN None ELSE Some(NDiv(a, b))

\* Variant of I64CheckedAdd: a wrapping i64 addition that never fails.
I64WrappingAdd(x, y) ==
    LET r == ZAdd(x, y)
    IN  IF ZLt(I64_MAX, r) THEN Some(ZSub(r, ZMake(FALSE, TwoTo64)))
        ELSE IF ZLt(r, I64_MIN) THEN Some(ZAdd(r, ZMake(FALSE, TwoTo64)))
        ELSE Some(r)

I64CheckedAdd(x, y) ==
    LET r == ZAdd(x, y) IN IF InI64(r) THEN Some(r) ELSE None
\* Variant of I64CheckedSub: a wrapping i64 subtraction that never fails.
I64WrappingSub(x, y) ==
    LET r == ZSub(x, y)
    IN  IF ZLt(I64_MAX, r) THEN Some(ZSub(r, ZMake(FALSE, TwoTo64)))
        ELSE IF ZLt(r, I64_MIN) THEN Some(ZAdd(r, ZMake(FALSE, TwoTo64)))
        ELSE Some(r)

I64CheckedSub(x, y) ==
    LET r == ZSub(x, y) IN IF InI64(r) THEN Some(r) ELSE None
I64CheckedMul(x, y) ==
    LET r == ZMul(x, y) IN IF InI64(r) THEN Some(r) ELSE None
\* Variant of I64CheckedDiv: the quotient rounded toward minus infinity.
I64FloorDiv(x, y) ==
    IF y = ZZero \/ (x = I64_MIN /\ y = ZOf(-1)) THEN None
    ELSE LET qr == NDivMod(x.mag, y.mag)
         IN  IF x.neg # y.neg /\ qr[2] # NZero
             THEN Some(ZMake(TRUE, NAdd(qr[1], NOne)))
             ELSE Some(ZMake(x.neg # y.neg, qr[1]))

\* Signed division truncates toward zero; i64::MIN / -1 overflows.
I64CheckedDiv(x, y) ==
    IF y = ZZero \/ (x = I64_MIN /\ y = ZOf(-1)) THEN None
    ELSE Some(ZQuot(x, y))

\* u as i64 for a u64: the same 64 bits read as two's complement.
U64AsI64(u) ==
    IF NLe(u, I64_MAX.mag) THEN ZMake(FALSE, u)
    ELSE ZMake(TRUE, NSub(TwoTo64, u))
\* x as u64 for an i64: the same 64 bits read as unsigned.
I64AsU64(x) == IF x.neg THEN NSub(TwoTo64, x.mag) ELSE x.mag
\* c as u64 for a u128: the low 64 bits.
U128AsU64(c) == IF NLt(c, TwoTo64) THEN c ELSE NMod(c, TwoTo64)
\* u as u128 for a u64: the same value.
U64AsU128(u) == u

\* Variant of MinTime: the time of the first operand.
FirstTime(a, b) == a

MinTime(a, b) == IF a <= b THEN a ELSE b

(***************************************************************************)
(* price.rs                                                                *)
(***************************************************************************)
PD_EXPO == -9
PD_SCALE == <<0, 0, 10>>
\* Variant of MAX_PD_V_U64: (1 << 29) - 1 = 536870911
MAX_PD_V_U64_29 == <<911, 3687, 5>>

\* (1 << 28) - 1 = 268435455
MAX_PD_V_U64 == <<5455, 6843, 2>>

MkPrice(p, c, e, t) == [price |-> p, conf |-> c, expo |-> e, publish_time |-> t]

to_unsigned(x) ==
    IF x = I64_MIN THEN <<NAdd(I64AsU64(I64_MAX), NOne), ZOf(-1)>>
    ELSE IF ZLt(x, ZZero) THEN <<I64AsU64(ZNeg(x)), ZOf(-1)>>
    ELSE <<I64AsU64(x), ZOf(1)>>

\* Variant of NormalizeCond: both magnitudes must exceed the bound.
NormalizeCondBoth(p, c) == NLt(MAX_PD_V_U64, p) /\ NLt(MAX_PD_V_U64, c)

\* Variant of NormalizeCond: a magnitude equal to the bound is divided too.
NormalizeCondGe(p, c) == NLe(MAX_PD_V_U64, p) \/ NLe(MAX_PD_V_U64, c)

\* Variant of NormalizeCond: only the confidence is brought within the bound.
NormalizeCondConfOnly(p, c) == NLt(MAX_PD_V_U64, c)

NormalizeCond(p, c) == NLt(MAX_PD_V_U64, p) \/ NLt(MAX_PD_V_U64, c)

RECURSIVE NormalizeLoop(_, _, _)
\* The while loop of normalize: Some(<<p, c, e>>) at its exit, None when a
\* checked operation in its body fails.
NormalizeLoop(p, c, e) ==
    IF NormalizeCond(p, c)
    THEN LET p2 == U64CheckedDiv(p, NTen)
             c2 == U64CheckedDiv(c, NTen)
             e2 == I32CheckedAdd(e, 1)
         IN  IF p2 = None \/ c2 = None \/ e2 = None THEN None
             ELSE NormalizeLoop(p2[1], c2[1], e2[1])
    ELSE Some(<<p, c, e>>)

\* The tail of normalize: the Price built from the loop's p, c, e and the sign.
NormalizeResult(self, pce, s) ==
    Try(I64CheckedMul(U64AsI64(pce[1]), s), LAMBDA price :
    Some(MkPrice(price, pce[2], pce[3], self.publish_time)))

NormalizeFrom(self, ps) ==
    Try(NormalizeLoop(ps[1], self.conf, self.expo), LAMBDA pce :
    NormalizeResult(self, pce, ps[2]))

normalize(self) == NormalizeFrom(self, to_unsigned(self.price))

RECURSIVE ScaleDownLoop(_, _, _)
\* The loop of scale_to_exponent for delta >= 0.
ScaleDownLoop(p, c, delta) ==
    IF delta > 0 /\ (p # ZZero \/ c # NZero)
    THEN LET p2 == I64CheckedDiv(p, ZOf(10))
             c2 == U64CheckedDiv(c, NTen)
             d2 == I32CheckedSub(delta, 1)
         IN  IF p2 = None \/ c2 = None \/ d2 = None THEN None
             ELSE ScaleDownLoop(p2[1], c2[1], d2[1])
    ELSE Some(<<p, c>>)

RECURSIVE ScaleUpLoop(_, _, _)
\* The loop of scale_to_exponent for delta < 0.  With p = 0 and c = 0 no
\* multiplication overflows and every one of the -delta iterations leaves
\* p and c at 0: the loop is then summarised by its result.
ScaleUpLoop(p, c, delta) ==
    IF delta < 0
    THEN IF p = ZZero /\ c = NZero THEN Some(<<p, c>>)
         ELSE LET p2 == I64CheckedMul(p, ZOf(10))
                  c2 == U64CheckedMul(c, NTen)
                  d2 == I32CheckedAdd(delta, 1)
              IN  IF p2 = None \/ c2 = None \/ d2 = None THEN None
                  ELSE ScaleUpLoop(p2[1], c2[1], d2[1])
    ELSE Some(<<p, c>>)

ScaleLoop(p, c, delta) ==
    IF delta >= 0 THEN ScaleDownLoop(p, c, delta) ELSE ScaleUpLoop(p, c, delta)

RECURSIVE ScaleDownIterations(_, _, _, _)
\* The number of times the body of the loop for delta >= 0 is entered,
\* after n entries.
ScaleDownIterations(p, c, delta, n) ==
    IF delta > 0 /\ (p # ZZero \/ c # NZero)
    THEN LET p2 == I64CheckedDiv(p, ZOf(10))
             c2 == U64CheckedDiv(c, NTen)
             d2 == I32CheckedSub(delta, 1)
         IN  IF p2 = None \/ c2 = None \/ d2 = None THEN NOf(n + 1)
             ELSE ScaleDownIterations(p2[1], c2[1], d2[1], n + 1)
    ELSE NOf(n)

RECURSIVE ScaleUpIterations(_, _, _, _)
\* The number of times the body of the loop for delta < 0 is entered, after
\* n entries.  With p = 0 and c = 0 no multiplication overflows and
\* delta.checked_add(1) cannot fail below 0: the body is entered another
\* -delta times.
ScaleUpIterations(p, c, delta, n) ==
    IF delta < 0
    THEN IF p = ZZero /\ c = NZero
         THEN NAdd(NOf(n), IF delta = I32_MIN THEN NPow2(31) ELSE NOf(0 - delta))
         ELSE LET p2 == I64CheckedMul(p, ZOf(10))
                  c2 == U64CheckedMul(c, NTen)
                  d2 == I32CheckedAdd(delta, 1)
              IN  IF p2 = None \/ c2 = None \/ d2 = None THEN NOf(n + 1)
                  ELSE ScaleUpIterations(p2[1], c2[1], d2[1], n + 1)
    ELSE NOf(n)

\* The loop iterations of self.scale_to_exponent(target_expo).
ScaleIterations(self, target_expo) ==
    LET delta == I32CheckedSub(target_expo, self.expo)
    IN  IF delta = None THEN NZero
        ELSE IF delta[1] >= 0
             THEN ScaleDownIterations(self.price, self.conf, delta[1], 0)
             ELSE ScaleUpIterations(self.price, self.conf, delta[1], 0)

\* Variant of scale_to_exponent: the result keeps the exponent of self.
ScaleKeepsExpo(self, target_expo) ==
    Try(I32CheckedSub(target_expo, self.expo), LAMBDA delta :
    Try(ScaleLoop(self.price, self.conf, delta), LAMBDA pc :
    Some(MkPrice(pc[1], pc[2], self.expo, self.publish_time))))

scale_to_exponent(self, target_expo) ==
    Try(I32CheckedSub(target_expo, self.expo), LAMBDA delta :
    Try(ScaleLoop(self.price, self.conf, delta), LAMBDA pc :
    Some(MkPrice(pc[1], pc[2], target_expo, self.publish_time))))

\* Variant of add: Prices of different exponents are refused with None.
AddRefusesMismatch(self, other) ==
    IF self.expo # other.expo THEN None
    ELSE Try(I64CheckedAdd(self.price, other.price), LAMBDA price :
         Try(U64CheckedAdd(self.conf, other.conf), LAMBDA conf :
         Some(MkPrice(price, conf, self.expo,
                      MinTime(self.publish_time, other.publish_time)))))

add(self, other) ==
    IF self.expo # other.expo THEN Panic
    ELSE Try(I64CheckedAdd(self.price, other.price), LAMBDA price :
         Try(U64CheckedAdd(self.conf, other.conf), LAMBDA conf :
         Some(MkPrice(price, conf, self.expo,
                      MinTime(self.publish_time, other.publish_time)))))

\* (midprice as i64).checked_mul(base_sign)?.checked_mul(other_sign)
SignedMidprice(midprice, base_sign, other_sign) ==
    Try(I64CheckedMul(U64AsI64(midprice), base_sign), LAMBDA m :
    I64CheckedMul(m, other_sign))

\* Variant of MulConf: each confidence multiplied by its own price.
MulConfOwnPrice(base_conf, other_price, other_conf, base_price) ==
    Try(U64CheckedMul(base_conf, base_price), LAMBDA l :
    Try(U64CheckedMul(other_conf, other_price), LAMBDA r :
    U64CheckedAdd(l, r)))

\* base.conf.checked_mul(other_price)?
\*     .checked_add(other.conf.checked_mul(base_price)?)
MulConf(base_conf, other_price, other_conf, base_price) ==
    Try(U64CheckedMul(base_conf, other_price), LAMBDA l :
    Try(U64CheckedMul(other_conf, base_price), LAMBDA r :
    U64CheckedAdd(l, r)))

\* mul from the unsigned prices and signs of its normalized operands on.
MulNormalized(base, other, b, o, time) ==
    Try(U64CheckedMul(b[1], o[1]), LAMBDA midprice :
    Try(I32CheckedAdd(base.expo, other.expo), LAMBDA midprice_expo :
    Try(MulConf(base.conf, o[1], other.conf, b[1]), LAMBDA conf :
    Try(SignedMidprice(midprice, b[2], o[2]), LAMBDA price :
    Some(MkPrice(price, conf, midprice_expo, time))))))

\* Variant of mul: self is not normalized.
MulSelfAsIs(self, other_arg) ==
    Try(normalize(other_arg), LAMBDA other :
    MulNormalized(self, other, to_unsigned(self.price), to_unsigned(other.price),
                  MinTime(self.publish_time, other.publish_time)))

mul(self, other_arg) ==
    Try(normalize(self), LAMBDA base :
    Try(normalize(other_arg), LAMBDA other :
    MulNormalized(base, other, to_unsigned(base.price), to_unsigned(other.price),
                  MinTime(self.publish_time, other.publish_time))))

\* Variant of ScaledRatio: x is not multiplied by PD_SCALE.
UnscaledRatio(x, other_price) == U64CheckedDiv(x, other_price)

\* x.checked_mul(PD_SCALE)?.checked_div(other_price)
ScaledRatio(x, other_price) ==
    Try(U64CheckedMul(x, PD_SCALE), LAMBDA m :
    U64CheckedDiv(m, other_price))

\* Variant of DivExpo: PD_EXPO is not added.
DivExpoUnscaled(base_expo, other_expo) == I32CheckedSub(base_expo, other_expo)

\* Variant of DivExpo: PD_EXPO is added before other.expo is subtracted.
DivExpoAddFirst(base_expo, other_expo) ==
    Try(I32CheckedAdd(base_expo, PD_EXPO), LAMBDA s :
    I32CheckedSub(s, other_expo))

\* base.expo.checked_sub(other.expo)?.checked_add(PD_EXPO)
DivExpo(base_expo, other_expo) ==
    Try(I32CheckedSub(base_expo, other_expo), LAMBDA d :
    I32CheckedAdd(d, PD_EXPO))

\* Variant of DivConf: the second term is not divided by PD_SCALE.
DivConfUnscaled(base_conf, other_price, other_confidence_pct, midprice) ==
    Try(ScaledRatio(base_conf, other_price), LAMBDA first :
    Try(U128CheckedMul(U64AsU128(other_confidence_pct), U64AsU128(midprice)),
        LAMBDA prod :
    U128CheckedAdd(U64AsU128(first), prod)))

\* The u128 confidence of div.
DivConf(base_conf, other_price, other_confidence_pct, midprice) ==
    Try(ScaledRatio(base_conf, other_price), LAMBDA first :
    Try(U128CheckedMul(U64AsU128(other_confidence_pct), U64AsU128(midprice)),
        LAMBDA prod :
    Try(U128CheckedDiv(prod, U64AsU128(PD_SCALE)), LAMBDA second :
    U128CheckedAdd(U64AsU128(first), second))))

\* The result of div once midprice, exponent and confidence are computed.
DivResult(midprice, midprice_expo, conf, base_sign, other_sign, time) ==
    IF NLt(conf, U64AsU128(U64_MAX))
    THEN Try(SignedMidprice(midprice, base_sign, other_sign), LAMBDA price :
         Some(MkPrice(price, U128AsU64(conf), midprice_expo, time)))
    ELSE None

\* div from the unsigned prices and signs of its normalized operands on.
DivNormalized(base, other, b, o, time) ==
    Try(ScaledRatio(b[1], o[1]), LAMBDA midprice :
    Try(DivExpo(base.expo, other.expo), LAMBDA midprice_expo :
    Try(ScaledRatio(other.conf, o[1]), LAMBDA other_confidence_pct :
    Try(DivConf(base.conf, o[1], other_confidence_pct, midprice), LAMBDA conf :
    DivResult(midprice, midprice_expo, conf, b[2], o[2], time)))))

div(self, other_arg) ==
    Try(normalize(self), LAMBDA base :
    Try(normalize(other_arg), LAMBDA other :
    IF other.price = ZZero THEN None
    ELSE DivNormalized(base, other, to_unsigned(base.price),
                       to_unsigned(other.price),
                       MinTime(self.publish_time, other.publish_time))))

get_price_in_quote(self, quote, result_expo) ==
    Try(div(self, quote), LAMBDA ratio : scale_to_exponent(ratio, result_expo))

\* Variant of fraction: y divided by x.
FractionInverted(x, y) ==
    div(MkPrice(y, NZero, 0, 0), MkPrice(x, NZero, 0, 0))

\* Variant of fraction: the operands carry the latest publish_time.
FractionLatest(x, y) ==
    div(MkPrice(x, NZero, 0, I32_MAX), MkPrice(y, NZero, 0, I32_MAX))

fraction(x, y) ==
    div(MkPrice(x, NZero, 0, 0), MkPrice(y, NZero, 0, 0))

\* Variant of affine_combination: the two fractions are exchanged.
AffineFractionsExchanged(x1, y1, x2, y2, x_query, pre_add_expo) ==
    IF ZLe(x2, x1) THEN None
    ELSE Try(I64CheckedSub(x_query, x1), LAMBDA delta_q1 :
         Try(I64CheckedSub(x2, x_query), LAMBDA delta_2q :
         Try(I64CheckedSub(x2, x1), LAMBDA delta_21 :
         Try(fraction(delta_q1, delta_21), LAMBDA frac_q1 :
         Try(fraction(delta_2q, delta_21), LAMBDA frac_2q :
         Try(mul(y2, frac_2q), LAMBDA left0 :
         Try(mul(y1, frac_q1), LAMBDA right0 :
         Try(scale_to_exponent(left0, pre_add_expo), LAMBDA left :
         Try(scale_to_exponent(right0, pre_add_expo), LAMBDA right :
         add(left, right))))))))))

\* Variant of affine_combination: the term of y1 is added as mul returns it.
AffineRightUnscaled(x1, y1, x2, y2, x_query, pre_add_expo) ==
    IF ZLe(x2, x1) THEN None
    ELSE Try(I64CheckedSub(x_query, x1), LAMBDA delta_q1 :
         Try(I64CheckedSub(x2, x_query), LAMBDA delta_2q :
         Try(I64CheckedSub(x2, x1), LAMBDA delta_21 :
         Try(fraction(delta_q1, delta_21), LAMBDA frac_q1 :
         Try(fraction(delta_2q, delta_21), LAMBDA frac_2q :
         Try(mul(y2, frac_q1), LAMBDA left0 :
         Try(mul(y1, frac_2q), LAMBDA right :
         Try(scale_to_exponent(left0, pre_add_expo), LAMBDA left :
         add(left, right)))))))))

affine_combination(x1, y1, x2, y2, x_query, pre_add_expo) ==
    IF ZLe(x2, x1) THEN None
    ELSE Try(I64CheckedSub(x_query, x1), LAMBDA delta_q1 :
         Try(I64CheckedSub(x2, x_query), LAMBDA delta_2q :
         Try(I64CheckedSub(x2, x1), LAMBDA delta_21 :
         Try(fraction(delta_q1, delta_21), LAMBDA frac_q1 :
         Try(fraction(delta_2q, delta_21), LAMBDA frac_2q :
         Try(mul(y2, frac_q1), LAMBDA left0 :
         Try(mul(y1, frac_2q), LAMBDA right0 :
         Try(scale_to_exponent(left0, pre_add_expo), LAMBDA left :
         Try(scale_to_exponent(right0, pre_add_expo), LAMBDA right :
         add(left, right))))))))))

\* i64::try_from(u).ok() for a u64.
I64TryFromU64(u) == IF NLe(u, I64_MAX.mag) THEN Some(ZMake(FALSE, u)) ELSE None

\* Variant of ValuationResult: the rescaled product as it is.
ValuationResultScaled(self, price_scaled) == Some(price_scaled)

\* The Price a valuation returns: the price and expo of the rescaled
\* product, the conf and publish time of self.
ValuationResult(self, price_scaled) ==
    Some(MkPrice(price_scaled.price, self.conf, price_scaled.expo,
                 self.publish_time))

\* get_collateral_valuation_price and get_borrow_valuation_price after the
\* test of the order of the rates, which is all they differ in.
ValuationPrice(self, amount, endpoint, rate_initial, rate_final, exponent) ==
    Try(I64TryFromU64(rate_initial), LAMBDA initial :
    Try(I64TryFromU64(rate_final), LAMBDA final :
    Try(I64TryFromU64(endpoint), LAMBDA x2 :
    Try(I64TryFromU64(amount), LAMBDA x_query :
    Try(affine_combination(ZZero, MkPrice(initial, NZero, exponent, 0),
                           x2, MkPrice(final, NZero, exponent, 0),
                           x_query, -9), LAMBDA interpolated :
    Try(mul(self, interpolated), LAMBDA product :
    Try(scale_to_exponent(product, self.expo), LAMBDA price_scaled :
    ValuationResult(self, price_scaled))))))))

get_collateral_valuation_price(self, deposits, deposits_endpoint, rate_discount_initial, rate_discount_final, discount_exponent) ==
    IF NLt(rate_discount_initial, rate_discount_final) THEN None
    ELSE ValuationPrice(self, deposits, deposits_endpoint,
                        rate_discount_initial, rate_discount_final,
                        discount_exponent)

\* Variant of get_borrow_valuation_price: the test of the rates is the one
\* of get_collateral_valuation_price.
BorrowRejectsIncrease(self, borrows, borrows_endpoint, rate_premium_initial, rate_premium_final, premium_exponent) ==
    IF NLt(rate_premium_initial, rate_premium_final) THEN None
    ELSE ValuationPrice(self, borrows, borrows_endpoint,
                        rate_premium_initial, rate_premium_final,
                        premium_exponent)

get_borrow_valuation_price(self, borrows, borrows_endpoint, rate_premium_initial, rate_premium_final, premium_exponent) ==
    IF NLt(rate_premium_final, rate_premium_initial) THEN None
    ELSE ValuationPrice(self, borrows, borrows_endpoint,
                        rate_premium_initial, rate_premium_final,
                        premium_exponent)

\* Variant of cmul: the constant is published at time 0.
CmulUntimed(self, c, e) == mul(self, MkPrice(c, NZero, e, 0))

cmul(self, c, e) == mul(self, MkPrice(c, NZero, e, self.publish_time))

RECURSIVE BasketLoop(_, _, _, _)
\* The for loop of price_basket from entry i on, res being the sum so far.
BasketLoop(res, amounts, result_expo, i) ==
    IF i > Len(amounts) THEN Some(res)
    ELSE Try(cmul(amounts[i][1], amounts[i][2], amounts[i][3]), LAMBDA term :
         Try(scale_to_exponent(term, result_expo), LAMBDA scaled :
         LET sum == add(res, scaled)
         IN  IF IsSome(sum)
             THEN BasketLoop(sum[1], amounts, result_expo, i + 1)
             ELSE sum))

price_basket(amounts, result_expo) ==
    IF amounts = <<>> THEN None
    ELSE BasketLoop(MkPrice(ZZero, NZero, result_expo,
                            amounts[1][1].publish_time),
                    amounts, result_expo, 1)

(***************************************************************************)
(* pyth-sdk-solana, state.rs: the price account.                           *)
(***************************************************************************)
PriceStatuses == {"Unknown", "Trading", "Halted", "Auction", "Ignored"}

\* The fields of a GenericPriceAccount that get_price_no_older_than reads.
MkAccount(status, pub_slot, prev_slot) ==
    [expo |-> 5, timestamp |-> 200,
     prev_slot |-> prev_slot, prev_price |-> ZOf(60), prev_conf |-> NOf(70),
     prev_timestamp |-> 100,
     agg |-> [price |-> ZOf(10), conf |-> NOf(20), status |-> status,
              pub_slot |-> pub_slot]]

\* A u64 subtraction that overflowed in a build with overflow checks.
SubPanic == <<"panicked", "attempt to subtract with overflow">>

\* a - b on u64: the difference when it is not negative; otherwise the
\* build decides: a panic with overflow checks, a - b + 2^64 without.
U64Sub(a, b, overflow_checks) ==
    IF NLe(b, a) THEN Some(NSub(a, b))
    ELSE IF overflow_checks THEN SubPanic
    ELSE Some(NSub(NAdd(a, TwoTo64), b))

AggregatePrice(acc) ==
    MkPrice(acc.agg.price, acc.agg.conf, acc.expo, acc.timestamp)
PreviousPrice(acc) ==
    MkPrice(acc.prev_price, acc.prev_conf, acc.expo, acc.prev_timestamp)

\* The second if of get_price_no_older_than.
PreviousNoOlderThan(acc, oldest) ==
    IF oldest = SubPanic THEN SubPanic
    ELSE IF NLe(oldest[1], acc.prev_slot) THEN Some(PreviousPrice(acc))
    ELSE None

\* oldest is clock.slot - slot_threshold, which the first if evaluates only
\* when the status is Trading.
NoOlderThan(acc, oldest) ==
    IF acc.agg.status = "Trading"
    THEN IF oldest = SubPanic THEN SubPanic
         ELSE IF NLe(oldest[1], acc.agg.pub_slot)
              THEN Some(AggregatePrice(acc))
              ELSE PreviousNoOlderThan(acc, oldest)
    ELSE PreviousNoOlderThan(acc, oldest)

get_price_no_older_than(acc, clk, threshold, overflow_checks) ==
    NoOlderThan(acc, U64Sub(clk.slot, threshold, overflow_checks))

(***************************************************************************)
(* The state machine.  The library is a set of pure functions: a behaviour *)
(* is one call.  Before the call op = "idle"; the call records the         *)
(* function called, its arguments and the value it returned.               *)
(***************************************************************************)
VARIABLES
    op,            \* the function called, "idle" before the call
    self,          \* the receiver &self
    other,         \* the second operand of add, mul and div
    target_expo,   \* the target_expo of scale_to_exponent
    x1, y1, x2, y2, x_query, pre_add_expo,   \* the arguments of affine_combination
    deposits, deposits_endpoint,             \* the arguments of the valuations:
    rate_discount_initial,                   \* those of get_collateral_valuation_price,
    rate_discount_final,                     \* and borrows, borrows_endpoint,
    discount_exponent,                       \* rate_premium_initial, ... of the other
    amounts, result_expo,                    \* the arguments of price_basket
    account, clock, slot_threshold,          \* get_price_no_older_than: &self, ...
    iterations,    \* the iterations of the loop of scale_to_exponent so far
    result         \* the returned Option<Price> (or Panic)

vars ==
    <<op, self, other, target_expo, x1, y1, x2, y2, x_query, pre_add_expo,
      deposits, deposits_endpoint, rate_discount_initial, rate_discount_final,
      discount_exponent, amounts, result_expo, account, clock, slot_threshold,
      iterations, result>>
priceArgs == <<self, other, target_expo>>
affineArgs == <<x1, y1, x2, y2, x_query, pre_add_expo>>
valuationArgs ==
    <<deposits, deposits_endpoint, rate_discount_initial, rate_discount_final,
      discount_exponent>>
basketArgs == <<amounts, result_expo>>
accountArgs == <<account, clock, slot_threshold>>

\* Price::default()
DefaultPrice == MkPrice(ZZero, NZero, 0, 0)

(***************************************************************************)
(* The arguments the calls are made with.  Small magnitudes range over     *)
(* 0..MaxSmall; the other values sit at and next to the limits the code    *)
(* distinguishes: MAX_PD_V_U64, the ends of i64, u64 and i32.              *)
(***************************************************************************)
MaxSmall == 1

SmallN == {NOf(k) : k \in 0..MaxSmall}
SmallZ == {ZOf(k) : k \in (0 - MaxSmall)..MaxSmall}
Pos(n) == ZMake(FALSE, n)
Neg(n) == ZMake(TRUE, n)
MaxPdNext == NAdd(MAX_PD_V_U64, NOne)

U64Vals ==
    SmallN \cup {NOf(1234), NSub(MAX_PD_V_U64, NOne), MAX_PD_V_U64, MaxPdNext,
                 PD_SCALE, NSub(U64_MAX, NOne), U64_MAX}
I64Vals ==
    SmallZ \cup {Pos(NOf(1234)), Neg(NOf(1234)),
                 Pos(NSub(MAX_PD_V_U64, NOne)), Neg(NSub(MAX_PD_V_U64, NOne)),
                 Pos(MAX_PD_V_U64), Neg(MAX_PD_V_U64),
                 Pos(MaxPdNext), Neg(MaxPdNext),
                 ZSub(I64_MAX, ZOf(1)), I64_MAX, ZAdd(I64_MIN, ZOf(1)), I64_MIN}
\* 2 - PD_EXPO = 11 divisions by 10 normalize the largest 64-bit values.
ExpoVals ==
    ((0 - MaxSmall)..MaxSmall) \cup
    {I32_MIN, PD_EXPO, I32_MAX - (2 - PD_EXPO) - 1, I32_MAX - (2 - PD_EXPO),
     I32_MAX - (2 - PD_EXPO) + 1, I32_MAX - 1, I32_MAX}
TimeVals == {-5, 100}

\* scale_to_exponent: targets on both sides of the exponents, up to the
\* deltas at which a 64-bit value runs out of digits.
ScaleExpos == {I32_MIN, 0, I32_MAX}
ScaleTargets ==
    ((0 - MaxSmall)..MaxSmall) \cup
    {I32_MIN, I32_MIN + 1, -20, -19, -18, -17, -2, 2, 4, 19, 20, I32_MAX - 1, I32_MAX}

\* add: the operands 100 +- 10, and mantissas and confidences whose sums
\* reach the ends of i64 and u64.
AddI64 ==
    SmallZ \cup {ZOf(100), ZSub(I64_MAX, ZOf(1)), I64_MAX, ZAdd(I64_MIN, ZOf(1)),
                 I64_MIN}
AddU64 == SmallN \cup {NOf(10), NSub(U64_MAX, NOne), U64_MAX}
AddExpos == {<<0, 0>>, <<PD_EXPO, PD_EXPO>>, <<0, 1>>}

\* mul and div: operands that need no, one and eleven normalization steps.
ArithI64 == SmallZ \cup {Pos(MAX_PD_V_U64), Neg(MaxPdNext), I64_MIN}
ArithU64 == SmallN \cup {MAX_PD_V_U64, MaxPdNext, U64_MAX}
ArithExpos ==
    {<<PD_EXPO, 2>>, <<I32_MAX, 1>>, <<I32_MAX, -1>>, <<I32_MIN, -1>>,
     <<I32_MIN - PD_EXPO, 1>>, <<I32_MIN, PD_EXPO>>}

\* div: the operands above, the quotient of 10 +- 1 by 1 +- 1, and three
\* quotients of normalized operands whose combined confidence is 976562
\* below 2^64 - 1, equal to it, and 976563 above it.
DivGrid ==
    {<<MkPrice(p, a, e[1], t), MkPrice(q, b, e[2], u)>> :
        p \in ArithI64, q \in ArithI64, a \in ArithU64, b \in ArithU64,
        e \in ArithExpos, t \in TimeVals, u \in TimeVals}
DivCases ==
    {<<MkPrice(ZOf(10), NOf(1), 0, 100), MkPrice(ZOf(1), NOf(1), 0, -5)>>} \cup
    {<<MkPrice(Pos(<<723, 8479, 1>>), a, 0, 100),
       MkPrice(ZOf(1024), <<3549, 467, 1>>, 0, -5)>> :
        a \in {<<2761, 968, 1>>, <<2762, 968, 1>>, <<2763, 968, 1>>}}
DivOperands == DivGrid \cup DivCases

\* affine_combination
AffineXs == SmallZ \cup {ZOf(5), ZOf(10), I64_MAX, I64_MIN}
AffineYs ==
    {MkPrice(ZOf(90), NZero, -4, 100), MkPrice(ZOf(-100), NOf(15), -4, -5),
     MkPrice(I64_MAX, U64_MAX, 0, 100), MkPrice(ZOf(100), NZero, -4, 0),
     MkPrice(Neg(MAX_PD_V_U64), MAX_PD_V_U64, -4, 100),
     MkPrice(ZZero, NZero, I32_MAX, 100)}
AffineExpos == {PD_EXPO, 0}

\* The valuations: the Price 100 +- 2 at expo -9 of the tests, a negative
\* one, the largest one; amounts and endpoints between 0 and 100 and at
\* 2^63, the first u64 that is no i64, and the endpoints 3 * 10^9 and
\* 300_000_009 with the amount 50_000_000, which normalization has to
\* shorten; discount and premium rates of 90%, 100% and 110%.
ValuationPrices ==
    {MkPrice(Pos(NMul(NOf(100), PD_SCALE)), NMul(NOf(2), PD_SCALE), PD_EXPO, 100),
     MkPrice(ZOf(-1234), NOf(7), 0, -5),
     MkPrice(I64_MAX, U64_MAX, 0, 100)}
ValuationAmounts == SmallN \cup {NOf(50), NOf(100), NOf(50000000), NPow2(63)}
ValuationEndpoints ==
    {NZero, NOf(100), NOf(300000009), <<0, 0, 30>>, NPow2(63)}
ValuationRates == {NOf(90), NOf(100), NOf(110), NPow2(63)}
ValuationExpos == {-2, I32_MIN}

\* price_basket: the Price 1.00 +- 0.10 and the largest Price, quantities
\* -1, 1 and the 10 of the example, quantity exponents 0, the -2 of the
\* example and the largest one, baskets of up to MaxBasketLen entries.
MaxBasketLen == 2
BasketPrices ==
    {MkPrice(ZOf(100), NOf(10), -2, 100), MkPrice(I64_MAX, U64_MAX, 0, -5)}
BasketQtys == {ZOf(-1), ZOf(1), ZOf(10)}
BasketQtyExpos == {0, -2, I32_MAX}
BasketEntries ==
    {<<p, q, e>> : p \in BasketPrices, q \in BasketQtys, e \in BasketQtyExpos}
BasketAmounts == UNION {[1..n -> BasketEntries] : n \in 0..MaxBasketLen}
BasketExpos == {0, -4}

\* get_price_in_quote: 10 +- 1, 1 +- 1, 0 +- 0 at the largest exponent and
\* the largest Price, in each other, at the exponents PD_EXPO, 0 and the
\* least one.
QuotePrices ==
    {MkPrice(ZOf(10), NOf(1), 0, 100), MkPrice(ZOf(1), NOf(1), 0, -5),
     MkPrice(ZZero, NZero, I32_MAX, 100), MkPrice(I64_MIN, U64_MAX, 0, 100)}
QuoteExpos == {PD_EXPO, 0, I32_MIN}

\* fraction: the numerators and denominators of test_fraction.
FractionVals ==
    SmallZ \cup
    {ZOf(7), ZOf(100), ZOf(1000), Pos(MAX_PD_V_U64), Neg(MAX_PD_V_U64),
     Pos(MaxPdNext), Pos(<<11, 0, 100>>), Pos(<<1123, 2, 0, 3>>),
     I64_MAX, I64_MIN}

\* get_price_no_older_than: the account of the tests of state.rs, with
\* slots and thresholds at both ends of u64.
DefaultAccount == MkAccount("Unknown", NZero, NZero)
SlotVals == SmallN \cup {NOf(3), NOf(5), U64_MAX}

Init ==
    /\ op = "idle"
    /\ self = DefaultPrice /\ other = DefaultPrice /\ target_expo = 0
    /\ x1 = ZZero /\ x2 = ZZero /\ x_query = ZZero
    /\ y1 = DefaultPrice /\ y2 = DefaultPrice /\ pre_add_expo = 0
    /\ deposits = NZero /\ deposits_endpoint = NZero
    /\ rate_discount_initial = NZero /\ rate_discount_final = NZero
    /\ discount_exponent = 0
    /\ amounts = <<>> /\ result_expo = 0
    /\ account = DefaultAccount /\ clock = [slot |-> NZero]
    /\ slot_threshold = NZero
    /\ iterations = NZero
    /\ result = None

CallNormalize ==
    /\ op = "idle"
    /\ \E p \in I64Vals, c \in U64Vals, e \in ExpoVals, t \in TimeVals :
          LET s == MkPrice(p, c, e, t)
          IN  /\ self' = s
              /\ result' = normalize(s)
    /\ op' = "normalize"
    /\ UNCHANGED <<other, target_expo, affineArgs, valuationArgs, basketArgs, accountArgs, iterations>>

CallScaleToExponent ==
    /\ op = "idle"
    /\ \E p \in I64Vals, c \in U64Vals, e \in ScaleExpos, te \in ScaleTargets :
          LET s == MkPrice(p, c, e, 100)
          IN  /\ self' = s
              /\ target_expo' = te
              /\ result' = scale_to_exponent(s, te)
              /\ iterations' = ScaleIterations(s, te)
    /\ op' = "scale_to_exponent"
    /\ UNCHANGED <<other, affineArgs, valuationArgs, basketArgs, accountArgs>>

CallAdd ==
    /\ op = "idle"
    /\ \E p \in AddI64, q \in AddI64, a \in AddU64, b \in AddU64,
          e \in AddExpos, t \in TimeVals, u \in TimeVals :
          LET s == MkPrice(p, a, e[1], t)
              o == MkPrice(q, b, e[2], u)
          IN  /\ self' = s
              /\ other' = o
              /\ result' = add(s, o)
    /\ op' = "add"
    /\ UNCHANGED <<target_expo, affineArgs, valuationArgs, basketArgs, accountArgs, iterations>>

CallMul ==
    /\ op = "idle"
    /\ \E p \in ArithI64, q \in ArithI64, a \in ArithU64, b \in ArithU64,
          e \in ArithExpos, t \in TimeVals, u \in TimeVals :
          LET s == MkPrice(p, a, e[1], t)
              o == MkPrice(q, b, e[2], u)
          IN  /\ self' = s
              /\ other' = o
              /\ result' = mul(s, o)
    /\ op' = "mul"
    /\ UNCHANGED <<target_expo, affineArgs, valuationArgs, basketArgs, accountArgs, iterations>>

CallDiv ==
    /\ op = "idle"
    /\ \E operands \in DivOperands :
          /\ self' = operands[1]
          /\ other' = operands[2]
          /\ result' = div(operands[1], operands[2])
    /\ op' = "div"
    /\ UNCHANGED <<target_expo, affineArgs, valuationArgs, basketArgs, accountArgs, iterations>>

\* The arguments quote and result_expo are recorded in other and
\* target_expo.
CallGetPriceInQuote ==
    /\ op = "idle"
    /\ \E s \in QuotePrices, q \in QuotePrices, e \in QuoteExpos :
          /\ self' = s
          /\ other' = q
          /\ target_expo' = e
          /\ result' = get_price_in_quote(s, q, e)
    /\ op' = "get_price_in_quote"
    /\ UNCHANGED <<affineArgs, valuationArgs, basketArgs, accountArgs, iterations>>

\* The arguments x and y are recorded in x1 and x2.
CallFraction ==
    /\ op = "idle"
    /\ \E x \in FractionVals, y \in FractionVals :
          /\ x1' = x
          /\ x2' = y
          /\ result' = fraction(x, y)
    /\ op' = "fraction"
    /\ UNCHANGED <<priceArgs, y1, y2, x_query, pre_add_expo, valuationArgs,
                   basketArgs, accountArgs, iterations>>

CallAffineCombination ==
    /\ op = "idle"
    /\ \E a \in AffineXs, b \in AffineXs, q \in AffineXs,
          ya \in AffineYs, yb \in AffineYs, e \in AffineExpos :
          /\ x1' = a /\ x2' = b /\ x_query' = q
          /\ y1' = ya /\ y2' = yb /\ pre_add_expo' = e
          /\ result' = affine_combination(a, ya, b, yb, q, e)
    /\ op' = "affine_combination"
    /\ UNCHANGED <<priceArgs, valuationArgs, basketArgs, accountArgs, iterations>>

CallGetCollateralValuationPrice ==
    /\ op = "idle"
    /\ \E s \in ValuationPrices, d \in ValuationAmounts,
          de \in ValuationEndpoints, ri \in ValuationRates,
          rf \in ValuationRates, e \in ValuationExpos :
          /\ self' = s
          /\ deposits' = d /\ deposits_endpoint' = de
          /\ rate_discount_initial' = ri /\ rate_discount_final' = rf
          /\ discount_exponent' = e
          /\ result' = get_collateral_valuation_price(s, d, de, ri, rf, e)
    /\ op' = "get_collateral_valuation_price"
    /\ UNCHANGED <<other, target_expo, affineArgs, basketArgs, accountArgs, iterations>>

\* The arguments borrows, borrows_endpoint, rate_premium_initial,
\* rate_premium_final and premium_exponent are recorded in the variables of
\* the corresponding arguments of get_collateral_valuation_price.
CallGetBorrowValuationPrice ==
    /\ op = "idle"
    /\ \E s \in ValuationPrices, b \in ValuationAmounts,
          be \in ValuationEndpoints, ri \in ValuationRates,
          rf \in ValuationRates, e \in ValuationExpos :
          /\ self' = s
          /\ deposits' = b /\ deposits_endpoint' = be
          /\ rate_discount_initial' = ri /\ rate_discount_final' = rf
          /\ discount_exponent' = e
          /\ result' = get_borrow_valuation_price(s, b, be, ri, rf, e)
    /\ op' = "get_borrow_valuation_price"
    /\ UNCHANGED <<other, target_expo, affineArgs, basketArgs, accountArgs, iterations>>

CallPriceBasket ==
    /\ op = "idle"
    /\ \E a \in BasketAmounts, e \in BasketExpos :
          /\ amounts' = a /\ result_expo' = e
          /\ result' = price_basket(a, e)
    /\ op' = "price_basket"
    /\ UNCHANGED <<priceArgs, affineArgs, valuationArgs, accountArgs, iterations>>

\* overflow_checks is the choice of the build.
CallGetPriceNoOlderThan ==
    /\ op = "idle"
    /\ \E status \in PriceStatuses, pub_slot \in SlotVals, prev_slot \in SlotVals,
          slot \in SlotVals, threshold \in SlotVals, overflow_checks \in BOOLEAN :
          LET acc == MkAccount(status, pub_slot, prev_slot)
              clk == [slot |-> slot]
          IN  /\ account' = acc
              /\ clock' = clk
              /\ slot_threshold' = threshold
              /\ result' = get_price_no_older_than(acc, clk, threshold,
                                                   overflow_checks)
    /\ op' = "get_price_no_older_than"
    /\ UNCHANGED <<priceArgs, affineArgs, valuationArgs, basketArgs, iterations>>

Next ==
    \/ CallNormalize
    \/ CallScaleToExponent
    \/ CallAdd
    \/ CallMul
    \/ CallDiv
    \/ CallGetPriceInQuote
    \/ CallFraction
    \/ CallAffineCombination
    \/ CallGetCollateralValuationPrice
    \/ CallGetBorrowValuationPrice
    \/ CallPriceBasket
    \/ CallGetPriceNoOlderThan

Spec == Init /\ [][Next]_vars

\* The operations of price.rs.
SpecEngine ==
    Init /\ [][\/ CallNormalize \/ CallScaleToExponent \/ CallAdd \/ CallMul
              \/ CallDiv \/ CallGetPriceInQuote \/ CallFraction
              \/ CallAffineCombination \/ CallGetCollateralValuationPrice
              \/ CallGetBorrowValuationPrice \/ CallPriceBasket]_vars

\* One specification per function, for the properties of that function.
SpecNormalize == Init /\ [][CallNormalize]_vars
SpecScale == Init /\ [][CallScaleToExponent]_vars
SpecAdd == Init /\ [][CallAdd]_vars
SpecMul == Init /\ [][CallMul]_vars
SpecDiv == Init /\ [][CallDiv]_vars
SpecArith == Init /\ [][CallAdd \/ CallMul \/ CallDiv]_vars
SpecFraction == Init /\ [][CallFraction]_vars
SpecAffine == Init /\ [][CallAffineCombination]_vars
SpecBasket == Init /\ [][CallPriceBasket]_vars
SpecAccount == Init /\ [][CallGetPriceNoOlderThan]_vars
SpecValuation ==
    Init /\ [][CallGetCollateralValuationPrice \/ CallGetBorrowValuationPrice]_vars

\* The operations that call add themselves or through affine_combination.
CallsOfAdd ==
    \/ CallAffineCombination
    \/ CallGetCollateralValuationPrice
    \/ CallGetBorrowValuationPrice
    \/ CallPriceBasket
SpecCallsOfAdd == Init /\ [][CallsOfAdd]_vars

(***************************************************************************)
(* The properties.  They are stated with the exact arithmetic above, not   *)
(* with the checked operations and loops of price.rs.                      *)
(***************************************************************************)
RECURSIVE Pow10(_)
\* 10^k as a numeral, for k >= 0.
Pow10(k) == IF k = 0 THEN NOne ELSE NMulS(Pow10(k - 1), 10, 0)

\* 2^28 - 1
Bound28 == NSub(NPow2(28), NOne)

\* Both magnitudes are within the bound after k truncating divisions by 10.
WithinAfter(p, c, k) ==
    NLe(NDiv(p, Pow10(k)), Bound28) /\ NLe(NDiv(c, Pow10(k)), Bound28)

RECURSIVE LeastKFrom(_, _, _)
\* A 64-bit magnitude has at most 20 decimal digits.
LeastKFrom(p, c, k) ==
    IF k >= 20 \/ WithinAfter(p, c, k) THEN k ELSE LeastKFrom(p, c, k + 1)

\* The least number of divisions by 10 that brings the magnitudes p and c
\* to at most 2^28 - 1.
LeastK(p, c) == LeastKFrom(p, c, 0)

\* An i32 as a signed numeral.
ZInt(k) == IF k = I32_MIN THEN ZSub(ZOf(I32_MIN + 1), ZOf(1)) ELSE ZOf(k)

InI32(z) == ZLe(ZInt(I32_MIN), z) /\ ZLe(z, ZInt(I32_MAX))

\* C1: every Price that normalize returns has |price| <= 2^28 - 1 and
\* conf <= 2^28 - 1, whatever the i64 price (i64::MIN included), the u64
\* conf and the i32 expo of the receiver.
C1_NormalizeWithinBound ==
    (op = "normalize" /\ result # None) =>
        /\ NLe(result[1].price.mag, Bound28)
        /\ NLe(result[1].conf, Bound28)

\* C1 witness: i64::MIN +- u64::MAX was normalized to a non-zero price.
C1_Witness ==
    /\ op = "normalize"
    /\ self.price = I64_MIN /\ self.conf = U64_MAX
    /\ result # None
    /\ result[1].price # ZZero /\ result[1].conf # NZero

\* C2: when self normalizes to (p, a, e1), other normalizes to (q, b, e2)
\* and mul returns Some(r), r.price is the signed product p*q, r.conf is
\* a*|q| + b*|p| and r.expo is e1 + e2.
C2_MulFormula ==
    (op = "mul" /\ result # None) =>
        LET n1 == normalize(self)
            n2 == normalize(other)
        IN  /\ n1 # None /\ n2 # None
            /\ result[1].price = ZMul(n1[1].price, n2[1].price)
            /\ result[1].conf = NAdd(NMul(n1[1].conf, n2[1].price.mag),
                                     NMul(n2[1].conf, n1[1].price.mag))
            /\ result[1].expo = n1[1].expo + n2[1].expo

\* C2 witness: a product of a negative price that needed normalization and
\* a positive one, with both confidences contributing.
C2_Witness ==
    /\ op = "mul"
    /\ self.price = Neg(MaxPdNext) /\ self.conf = MaxPdNext
    /\ other.price = Pos(MAX_PD_V_U64) /\ other.conf = MaxPdNext
    /\ result # None
    /\ result[1].price.neg /\ result[1].conf # NZero

\* C3: when self normalizes to (p, a, e1), other normalizes to (q, b, e2)
\* with q # 0 and div returns Some(r), then with m = floor(|p|*10^9/|q|):
\* r.price = sign(p)*sign(q)*m, r.expo = e1 - e2 - 9 and
\* r.conf = floor(a*10^9/|q|) + floor(floor(b*10^9/|q|)*m/10^9).
C3_DivFormula ==
    (op = "div" /\ result # None) =>
        LET n1 == normalize(self)
            n2 == normalize(other)
        IN  /\ n1 # None /\ n2 # None
            /\ n2[1].price # ZZero
            /\ LET p == n1[1].price
                   q == n2[1].price
                   a == n1[1].conf
                   b == n2[1].conf
                   m == NDiv(NMul(p.mag, Pow10(9)), q.mag)
               IN  /\ result[1].price = ZMake(p.neg # q.neg, m)
                   /\ result[1].expo = n1[1].expo - n2[1].expo - 9
                   /\ result[1].conf =
                          NAdd(NDiv(NMul(a, Pow10(9)), q.mag),
                               NDiv(NMul(NDiv(NMul(b, Pow10(9)), q.mag), m),
                                    Pow10(9)))

\* C3 witness: a quotient of operands that both needed normalization, with a
\* negative price and a confidence to which both terms contribute.
C3_Witness ==
    /\ op = "div"
    /\ self.price = I64_MIN /\ self.conf = U64_MAX
    /\ other.price = Pos(MAX_PD_V_U64) /\ other.conf = MaxPdNext
    /\ result # None
    /\ result[1].price.neg
    /\ NLt(result[1].price.mag, result[1].conf)

\* C4: div returns None whenever the normalized price of the divisor is 0:
\* when its raw price is 0, and when its raw price is not 0 but the
\* divisions by 10 that its confidence demands truncate it to 0.
C4_DivByZeroIsNone ==
    op = "div" =>
        (NDiv(other.price.mag,
              Pow10(LeastK(other.price.mag, other.conf))) = NZero
            => result = None)

\* C4 witness: the divisor 1 +- u64::MAX, whose price normalization
\* truncates to 0, under a dividend that normalizes.
C4_Witness ==
    /\ op = "div"
    /\ other.price = ZOf(1) /\ other.conf = U64_MAX
    /\ self.price = ZOf(1) /\ self.conf = NZero /\ self.expo = PD_EXPO
    /\ result = None

\* C5: for operands of equal expo, add returns Some(r) with
\* r.price = self.price + other.price, r.conf = self.conf + other.conf and
\* r.expo = self.expo exactly when the price sum fits i64 and the conf sum
\* fits u64, and None otherwise.
C5_AddExact ==
    (op = "add" /\ self.expo = other.expo) =>
        LET ps == ZAdd(self.price, other.price)
            cs == NAdd(self.conf, other.conf)
        IN  IF /\ ZLe(ZNeg(ZMake(FALSE, NPow2(63))), ps)
               /\ ZLt(ps, ZMake(FALSE, NPow2(63)))
               /\ NLt(cs, NPow2(64))
            THEN /\ IsSome(result)
                 /\ result[1].price = ps
                 /\ result[1].conf = cs
                 /\ result[1].expo = self.expo
            ELSE result = None

\* C5 witness: Price{100, 10, 0} + Price{100, 10, 0} = Price{200, 20, 0}.
C5_Witness ==
    /\ op = "add"
    /\ self.price = ZOf(100) /\ self.conf = NOf(10) /\ self.expo = 0
    /\ other.price = ZOf(100) /\ other.conf = NOf(10) /\ other.expo = 0
    /\ IsSome(result)
    /\ result[1].price = ZOf(200) /\ result[1].conf = NOf(20)
    /\ result[1].expo = 0

\* C6: whenever add, mul or div returns Some(r), r.publish_time is the
\* smaller of the publish times of the two operands, in either order.
C6_PublishTimeIsMin ==
    (op \in {"add", "mul", "div"} /\ IsSome(result)) =>
        /\ result[1].publish_time \in {self.publish_time, other.publish_time}
        /\ result[1].publish_time <= self.publish_time
        /\ result[1].publish_time <= other.publish_time

\* C6 witness: a quotient whose second operand is the older one.
C6_Witness ==
    /\ op = "div"
    /\ other.publish_time < self.publish_time
    /\ IsSome(result)
    /\ result[1].publish_time = other.publish_time

\* The decimal shift of C7 for a delta d within i32: shifts of 20 digits and
\* more act on a 64-bit value as a shift of 20 does (the quotient is 0; the
\* product fits only if the value is 0).
ShiftDigits(d) ==
    IF d >= 20 \/ d <= -20 THEN 20
    ELSE IF d < 0 THEN 0 - d ELSE d

\* What C7 says scale_to_exponent(t) returns on p.
ScaledExactly(p, t) ==
    LET d == ZSub(ZInt(t), ZInt(p.expo))
    IN  IF ~InI32(d) THEN None
        ELSE LET scale == Pow10(ShiftDigits(t - p.expo))
             IN  IF t - p.expo >= 0
                 THEN Some(MkPrice(ZQuot(p.price, ZMake(FALSE, scale)),
                                   NDiv(p.conf, scale), t, p.publish_time))
                 ELSE LET price == ZMul(p.price, ZMake(FALSE, scale))
                          conf  == NMul(p.conf, scale)
                      IN  IF /\ ZLe(ZNeg(ZMake(FALSE, NPow2(63))), price)
                             /\ ZLt(price, ZMake(FALSE, NPow2(63)))
                             /\ NLt(conf, NPow2(64))
                          THEN Some(MkPrice(price, conf, t, p.publish_time))
                          ELSE None

\* C7: with d = target_expo - expo as a mathematical integer,
\* scale_to_exponent returns None iff d is outside i32, or d < 0 and
\* price*10^(-d) does not fit i64 or conf*10^(-d) does not fit u64;
\* otherwise it returns the Price with expo target_expo, the publish time
\* unchanged and, for d >= 0, price/10^d truncated toward zero and
\* floor(conf/10^d), for d < 0, price*10^(-d) and conf*10^(-d).
C7_ScaleExact ==
    op = "scale_to_exponent" => result = ScaledExactly(self, target_expo)

\* C7 witness: -1234 scaled two digits coarser is -12 (truncation toward
\* zero).
C7_Witness ==
    /\ op = "scale_to_exponent"
    /\ self.price = ZOf(-1234) /\ self.expo = 0 /\ target_expo = 2
    /\ IsSome(result)
    /\ result[1].price = ZOf(-12)

\* C8: if normalize returns Some(r) and k = r.expo - expo, then k >= 0 is
\* the least number of divisions by 10 that brings both magnitudes to at
\* most 2^28 - 1, r.price = sign(price)*floor(|price|/10^k),
\* r.conf = floor(conf/10^k), the publish time is kept, the truncation
\* errors |price| - |r.price|*10^k and conf - r.conf*10^k are below 10^k,
\* and a Price already within the bounds is returned unchanged.
C8_NormalizeTruncation ==
    (op = "normalize" /\ result # None) =>
        LET r == result[1]
            k == r.expo - self.expo
        IN  /\ k \in 0..20
            /\ k = LeastK(self.price.mag, self.conf)
            /\ r.price = ZMake(self.price.neg, NDiv(self.price.mag, Pow10(k)))
            /\ r.conf = NDiv(self.conf, Pow10(k))
            /\ r.publish_time = self.publish_time
            /\ NLe(NMul(r.price.mag, Pow10(k)), self.price.mag)
            /\ NLt(NSub(self.price.mag, NMul(r.price.mag, Pow10(k))), Pow10(k))
            /\ NLe(NMul(r.conf, Pow10(k)), self.conf)
            /\ NLt(NSub(self.conf, NMul(r.conf, Pow10(k))), Pow10(k))
            /\ (WithinAfter(self.price.mag, self.conf, 0) => r = self)

\* C8 witness: i64::MIN +- 1 loses its last eleven digits.
C8_Witness ==
    /\ op = "normalize"
    /\ self.price = I64_MIN /\ self.conf = NOne /\ self.expo = 0
    /\ result # None
    /\ result[1].expo = 11
    /\ result[1].price = ZOf(-92233720) /\ result[1].conf = NZero

\* C9: normalize returns None if and only if expo + k > i32::MAX, k being
\* the least number of divisions by 10 that brings |price| and conf to at
\* most 2^28 - 1.
C9_NormalizeNoneIffExpoOverflow ==
    op = "normalize" =>
        (result = None <=>
            self.expo > I32_MAX - LeastK(self.price.mag, self.conf))

\* C9 witness: eleven divisions are needed and the exponent has room for
\* ten.
C9_Witness ==
    /\ op = "normalize"
    /\ self.conf = U64_MAX /\ self.expo = I32_MAX - 10
    /\ result = None

\* C10: affine_combination returns None whenever x2 <= x1, and whenever
\* x_query - x1, x2 - x_query or x2 - x1 is outside i64, for every y1, y2
\* and pre_add_expo.
C10_AffineRejects ==
    op = "affine_combination" =>
        ((\/ ZLe(x2, x1)
          \/ \E d \in {ZSub(x_query, x1), ZSub(x2, x_query), ZSub(x2, x1)} :
                \/ ZLt(d, ZNeg(ZMake(FALSE, NPow2(63))))
                \/ ZLe(ZMake(FALSE, NPow2(63)), d))
         => result = None)

\* C10 witness: x1 < x_query < x2 with x2 - x1 outside i64.
C10_Witness ==
    /\ op = "affine_combination"
    /\ x1 = I64_MIN /\ x_query = ZZero /\ x2 = I64_MAX
    /\ result = None

\* Both magnitudes of a Price are at most 2^28 - 1.
IsNormalized(p) == NLe(p.price.mag, Bound28) /\ NLe(p.conf, Bound28)

\* An Option<Price> o is Some with the price, conf and expo of p.
SameValueAs(o, p) ==
    /\ IsSome(o)
    /\ o[1].price = p.price /\ o[1].conf = p.conf /\ o[1].expo = p.expo

\* The endpoint (1 or 2) the query of a successful affine_combination with
\* x1 < x2 and normalized y1, y2 sits on, 0 if there is none.
AtEndpoint(i) ==
    /\ op = "affine_combination"
    /\ IsSome(result)
    /\ ZLt(x1, x2)
    /\ IsNormalized(y1) /\ IsNormalized(y2)
    /\ x_query = (IF i = 1 THEN x1 ELSE x2)

\* C11 as stated: for x1 < x2 and normalized y1, y2, a successful
\* affine_combination at x_query = x1 has the price, conf and expo of
\* y1.scale_to_exponent(pre_add_expo), and at x_query = x2 those of
\* y2.scale_to_exponent(pre_add_expo).
C11_EndpointsAsStated ==
    /\ AtEndpoint(1) =>
          LET s == scale_to_exponent(y1, pre_add_expo)
          IN  IsSome(s) /\ SameValueAs(result, s[1])
    /\ AtEndpoint(2) =>
          LET s == scale_to_exponent(y2, pre_add_expo)
          IN  IsSome(s) /\ SameValueAs(result, s[1])

\* What C11 amended says of the endpoint value y.
EndpointValue(y) ==
    LET s == scale_to_exponent(y, pre_add_expo)
    IN  IF IsSome(s) THEN SameValueAs(result, s[1])
        ELSE /\ y.price = ZZero /\ y.conf = NZero
             /\ ZLt(ZSub(ZInt(pre_add_expo), ZInt(y.expo)), ZInt(I32_MIN))
             /\ SameValueAs(result, MkPrice(ZZero, NZero, pre_add_expo, 0))

\* C11 amended: a successful affine_combination at an endpoint has the
\* price, conf and expo of that endpoint's y scaled to pre_add_expo
\* whenever that scaling succeeds; the scaling fails only for y = 0 +- 0
\* with pre_add_expo - y.expo below i32::MIN, and the result is then
\* 0 +- 0 at pre_add_expo.
C11_Endpoints ==
    /\ AtEndpoint(1) => EndpointValue(y1)
    /\ AtEndpoint(2) => EndpointValue(y2)

\* C11 witness: the query at x1, y1 = -(2^28-1) +- (2^28-1) at expo -4
\* truncated to expo 0.
C11_Witness ==
    /\ AtEndpoint(1)
    /\ y1 = MkPrice(Neg(MAX_PD_V_U64), MAX_PD_V_U64, -4, 100)
    /\ y2.price = ZOf(90)
    /\ pre_add_expo = 0
    /\ result[1].price = ZOf(-26843) /\ result[1].conf = NOf(26843)

RECURSIVE StripZeros(_)
\* The numeral n without its trailing decimal zeros.
StripZeros(n) ==
    IF n = NZero THEN NZero
    ELSE LET qr == NDivMod(n, NTen)
         IN  IF qr[2] = NZero THEN StripZeros(qr[1]) ELSE n

\* The magnitude n is written with at most 8 significant decimal digits.
Sig8(n) == NLt(StripZeros(n), Pow10(8))

RECURSIVE FractionSig8From(_, _, _)
\* The fraction a/d (d > 0) of magnitudes is a decimal of at most 8
\* significant digits: a*10^j/d is an integer of at most 8 significant
\* digits for some j.  A fraction of 64-bit integers that is at least 2^-63
\* and has 8 significant digits has at most 27 decimals.
FractionSig8From(a, d, j) ==
    LET qr == NDivMod(NMul(a, Pow10(j)), d)
    IN  IF qr[2] = NZero THEN Sig8(qr[1])
        ELSE IF j >= 27 THEN FALSE
        ELSE FractionSig8From(a, d, j + 1)

FractionSig8(a, d) == FractionSig8From(a, d, 0)

\* The term y * a/d of the affine combination in units of 10^e, as
\* Some(signed integer), or None when it is not an integer.  Beyond 40
\* digits between y.expo and e a non-zero term is either no integer or
\* outside i64.
ExactTerm(y, a, d, e) ==
    IF y.price = ZZero \/ a = ZZero THEN Some(ZZero)
    ELSE LET g == ZSub(ZInt(y.expo), ZInt(e))
         IN  IF ZLt(g, ZOf(-40)) \/ ZLt(ZOf(40), g) THEN None
             ELSE LET num == IF y.expo >= e
                             THEN NMul(NMul(y.price.mag, a.mag), Pow10(y.expo - e))
                             ELSE NMul(y.price.mag, a.mag)
                      den == IF y.expo >= e THEN d.mag
                             ELSE NMul(d.mag, Pow10(e - y.expo))
                      qr  == NDivMod(num, den)
                  IN  IF qr[2] = NZero
                      THEN Some(ZMake((y.price.neg # a.neg) # d.neg, qr[1]))
                      ELSE None

\* The conditions of C12 on the arguments of a call of affine_combination
\* with x1 < x2.
ExactConditions ==
    LET dq1 == ZSub(x_query, x1)
        d2q == ZSub(x2, x_query)
        d21 == ZSub(x2, x1)
    IN  /\ Sig8(dq1.mag) /\ Sig8(d2q.mag) /\ Sig8(d21.mag)
        /\ FractionSig8(dq1.mag, d21.mag) /\ FractionSig8(d2q.mag, d21.mag)
        /\ IsNormalized(y1) /\ IsNormalized(y2)
        /\ IsSome(ExactTerm(y2, dq1, d21, pre_add_expo))
        /\ IsSome(ExactTerm(y1, d2q, d21, pre_add_expo))

\* C12: if x_query - x1, x2 - x_query and x2 - x1 each have at most 8
\* significant decimal digits, both fractions (x_query-x1)/(x2-x1) and
\* (x2-x_query)/(x2-x1) have at most 8 significant decimal digits, y1 and y2
\* are normalized and both products are multiples of 10^pre_add_expo, then
\* the price of a successful result r satisfies r.price * 10^pre_add_expo =
\* y2*(x_query-x1)/(x2-x1) + y1*(x2-x_query)/(x2-x1) exactly.
C12_AffineExact ==
    (op = "affine_combination" /\ IsSome(result) /\ ZLt(x1, x2)
        /\ ExactConditions) =>
        /\ result[1].price =
              ZAdd(ExactTerm(y2, ZSub(x_query, x1), ZSub(x2, x1), pre_add_expo)[1],
                   ExactTerm(y1, ZSub(x2, x_query), ZSub(x2, x1), pre_add_expo)[1])
        /\ result[1].expo = pre_add_expo

\* C12 witness: halfway between 90 x 10^-4 at 0 and 100 x 10^-4 at 10 is
\* 9_500_000 x 10^-9.
C12_Witness ==
    /\ op = "affine_combination"
    /\ x1 = ZZero /\ x2 = ZOf(10) /\ x_query = ZOf(5)
    /\ y1 = MkPrice(ZOf(90), NZero, -4, 100)
    /\ y2 = MkPrice(ZOf(100), NZero, -4, 0)
    /\ pre_add_expo = -9
    /\ ExactConditions
    /\ result = Some(MkPrice(ZOf(9500000), NZero, -9, 0))

\* C13: for x1 < x2 and y1, y2 whose normalize succeeds, affine_combination
\* returns the same Option (None included) on y1, y2 as on y1.normalize(),
\* y2.normalize().
C13_AffineNormalizedYs ==
    (op = "affine_combination" /\ ZLt(x1, x2)
        /\ IsSome(normalize(y1)) /\ IsSome(normalize(y2))) =>
        result = affine_combination(x1, normalize(y1)[1], x2, normalize(y2)[1],
                                    x_query, pre_add_expo)

\* C13 witness: a successful combination of i64::MAX +- u64::MAX, which
\* normalize changes, with itself.
C13_Witness ==
    /\ op = "affine_combination"
    /\ ZLt(x1, x2)
    /\ y1 = MkPrice(I64_MAX, U64_MAX, 0, 100) /\ y2 = y1
    /\ normalize(y1) # Some(y1)
    /\ IsSome(result)
    /\ result[1].price # ZZero /\ result[1].conf # NZero

(***************************************************************************)
(* The valuations.                                                         *)
(***************************************************************************)
IsCollateral == op = "get_collateral_valuation_price"
IsBorrow == op = "get_borrow_valuation_price"
\* The Price 100 +- 2 at expo -9, published at 100.
Hundred ==
    MkPrice(Pos(<<0, 0, 1000>>), <<0, 0, 20>>, PD_EXPO, 100)
\* Arguments with which nothing but the order of the rates can fail: the
\* Price 100 +- 2, an amount up to the endpoint 100, rates of 90% to 110% at
\* exponent -2.
BenignValuation ==
    /\ self = Hundred
    /\ NLe(deposits, NOf(100)) /\ deposits_endpoint = NOf(100)
    /\ NLe(rate_discount_initial, NOf(110))
    /\ NLe(rate_discount_final, NOf(110))
    /\ discount_exponent = -2

\* C14: get_collateral_valuation_price returns None whenever
\* rate_discount_initial < rate_discount_final, and
\* get_borrow_valuation_price returns None whenever rate_premium_initial >
\* rate_premium_final; equal rates are not rejected by either test: with
\* benign arguments and equal rates both return Some.
C14_RatesOrder ==
    /\ (IsCollateral /\ NLt(rate_discount_initial, rate_discount_final))
           => result = None
    /\ (IsBorrow /\ NLt(rate_discount_final, rate_discount_initial))
           => result = None
    /\ ((IsCollateral \/ IsBorrow) /\ BenignValuation
            /\ rate_discount_initial = rate_discount_final)
           => IsSome(result)

\* C14 happens: a borrow valuation with benign arguments and a premium that
\* decreases from 110% to 100% is rejected.
C14_Witness ==
    /\ IsBorrow /\ BenignValuation
    /\ deposits = NOf(50)
    /\ rate_discount_initial = NOf(110) /\ rate_discount_final = NOf(100)
    /\ result = None

\* C15: a valuation that returns Some(r) keeps the expo, the conf and the
\* publish time of self.
C15_ValuationKeepsFields ==
    ((IsCollateral \/ IsBorrow) /\ IsSome(result))
        => /\ result[1].expo = self.expo
           /\ result[1].conf = self.conf
           /\ result[1].publish_time = self.publish_time

\* C15 happens: half of the deposits discount 100 +- 2 from 100% towards 90%
\* to 95 +- 2, still at expo -9 and published at 100.
C15_Witness ==
    /\ IsCollateral /\ self = Hundred
    /\ deposits = NOf(50) /\ deposits_endpoint = NOf(100)
    /\ rate_discount_initial = NOf(100) /\ rate_discount_final = NOf(90)
    /\ discount_exponent = -2
    /\ result = Some(MkPrice(Pos(<<0, 0, 950>>), <<0, 0, 20>>, PD_EXPO, 100))

(***************************************************************************)
(* price_basket.                                                           *)
(***************************************************************************)
\* entry.price.cmul(qty, qty_expo).scale_to_exponent(e) for an entry
\* (price, qty, qty_expo).
BasketTerm(entry, e) ==
    Try(cmul(entry[1], entry[2], entry[3]), LAMBDA t : scale_to_exponent(t, e))

RECURSIVE SumPrice(_, _)
\* The sum of the prices of the first k of the Prices T, as an integer.
SumPrice(T, k) ==
    IF k = 0 THEN ZZero ELSE ZAdd(SumPrice(T, k - 1), T[k].price)

RECURSIVE SumConf(_, _)
\* The sum of the confs of the first k of the Prices T, as a natural.
SumConf(T, k) ==
    IF k = 0 THEN NZero ELSE NAdd(SumConf(T, k - 1), T[k].conf)

\* The least publish time of the entries.
LeastPublishTime(a) ==
    CHOOSE t \in {a[i][1].publish_time : i \in 1..Len(a)} :
        \A i \in 1..Len(a) : t <= a[i][1].publish_time

\* What price_basket is to return when every term exists: None if the add of
\* some term fails, which it does when the sum up to that term is no i64 or
\* its conf no u64, and the sums at exponent e otherwise.
BasketSum(a, T, e) ==
    IF \E k \in 1..Len(T) : ~ InI64(SumPrice(T, k)) \/ ~ NLe(SumConf(T, k), U64_MAX)
    THEN None
    ELSE Some(MkPrice(SumPrice(T, Len(T)), SumConf(T, Len(T)), e,
                      LeastPublishTime(a)))

\* C16: price_basket(amounts, e) is None for no entries, None when the cmul,
\* the scale_to_exponent or the add of some term fails, and otherwise
\* Some(r) with r.expo = e, r.price and r.conf the sums of the price and conf
\* of entry.price.cmul(qty, qty_expo).scale_to_exponent(e) over the entries
\* and r.publish_time the least publish_time of the entries.
C16_PriceBasket ==
    op = "price_basket" =>
        IF amounts = <<>> THEN result = None
        ELSE LET terms == [i \in 1..Len(amounts) |->
                              BasketTerm(amounts[i], result_expo)]
             IN  IF \E i \in 1..Len(amounts) : terms[i] = None
                 THEN result = None
                 ELSE result = BasketSum(amounts,
                                         [i \in 1..Len(amounts) |-> terms[i][1]],
                                         result_expo)

\* C16 happens: ten times 1.00 +- 0.10 published at 100 and once the largest
\* Price published at -5 make 9223372000000000010 +- 18446744000000000001
\* at exponent 0, published at -5.
C16_Witness ==
    /\ op = "price_basket"
    /\ amounts = << <<MkPrice(ZOf(100), NOf(10), -2, 100), ZOf(10), 0>>,
                    <<MkPrice(I64_MAX, U64_MAX, 0, -5), ZOf(1), 0>> >>
    /\ result_expo = 0
    /\ result = Some(MkPrice(Pos(<<10, 0, 0, 3372, 922>>),
                             <<1, 0, 0, 6744, 1844>>, 0, -5))

(***************************************************************************)
(* div, continued.                                                         *)
(***************************************************************************)
\* floor(a*10^9/|q|) + floor(floor(b*10^9/|q|)*m/10^9) with
\* m = floor(|p|*10^9/|q|), for the normalized operands (p, a) and (q, b).
CombinedConf(base, divisor) ==
    LET q == divisor.price.mag
        m == NDiv(NMul(base.price.mag, Pow10(9)), q)
    IN  NAdd(NDiv(NMul(base.conf, Pow10(9)), q),
             NDiv(NMul(NDiv(NMul(divisor.conf, Pow10(9)), q), m), Pow10(9)))

\* Both operands of div normalize, the divisor to a price other than 0.
DivDefined ==
    /\ op = "div"
    /\ normalize(self) # None /\ normalize(other) # None
    /\ normalize(other)[1].price # ZZero

\* C17: when both operands normalize, the normalized price of the divisor is
\* not 0, the exponent arithmetic succeeds and the combined confidence is at
\* most u64::MAX, div returns Some with that confidence.
C17_ConfFitsGivesSome ==
    (/\ DivDefined
     /\ DivExpo(normalize(self)[1].expo, normalize(other)[1].expo) # None
     /\ NLe(CombinedConf(normalize(self)[1], normalize(other)[1]), U64_MAX))
        => /\ IsSome(result)
           /\ result[1].conf =
                  CombinedConf(normalize(self)[1], normalize(other)[1])

\* C17 does not hold of this call: 184790723 +- 109682762 divided by
\* 1024 +- 104673549, both at exponent 0, has the combined confidence
\* 2^64 - 1, and div returns None.
C17_Witness ==
    /\ op = "div"
    /\ self = MkPrice(Pos(<<723, 8479, 1>>), <<2762, 968, 1>>, 0, 100)
    /\ other = MkPrice(ZOf(1024), <<3549, 467, 1>>, 0, -5)
    /\ CombinedConf(self, other) = U64_MAX
    /\ result = None

\* div was called on normalized operands, the divisor's price not 0, whose
\* combined confidence div represents: one below u64::MAX.
DivOfNormalized ==
    /\ op = "div"
    /\ IsNormalized(self) /\ IsNormalized(other)
    /\ other.price # ZZero
    /\ NLt(CombinedConf(self, other), U64_MAX)

\* self.expo - other.expo as an integer.
ExpoDifference == ZSub(ZInt(self.expo), ZInt(other.expo))

\* C18 as stated: for normalized self and other with other.price # 0 and a
\* representable combined confidence, div returns Some(r) with
\* r.expo = self.expo + PD_EXPO - other.expo whenever that value is an i32,
\* and fails only when self.expo - other.expo - 9 is no i32.
C18_ExpoAsStated ==
    DivOfNormalized =>
        IF InI32(ZSub(ExpoDifference, ZOf(9)))
        THEN /\ IsSome(result)
             /\ ZInt(result[1].expo) = ZSub(ExpoDifference, ZOf(9))
        ELSE result = None

\* C18, amended: for such operands div returns Some(r) with
\* r.expo = self.expo - other.expo + PD_EXPO when both self.expo - other.expo
\* and that difference plus PD_EXPO are i32 values, and None otherwise.
C18_Expo ==
    DivOfNormalized =>
        IF InI32(ExpoDifference) /\ InI32(ZSub(ExpoDifference, ZOf(9)))
        THEN /\ IsSome(result)
             /\ ZInt(result[1].expo) = ZSub(ExpoDifference, ZOf(9))
        ELSE result = None

\* C18 happens: a quotient at the exponents i32::MIN and PD_EXPO is returned
\* at the exponent i32::MIN.
C18_Witness ==
    /\ DivOfNormalized
    /\ self.expo = I32_MIN /\ other.expo = PD_EXPO
    /\ IsSome(result)
    /\ result[1].expo = I32_MIN

\* div was called as Price{price: 10, conf: 1, expo: 0}.div(Price{price: 1,
\* conf: 1, expo: 0}).
DivTenByOne ==
    /\ op = "div"
    /\ self.price = ZOf(10) /\ self.conf = NOf(1) /\ self.expo = 0
    /\ other.price = ZOf(1) /\ other.conf = NOf(1) /\ other.expo = 0

\* C19 as stated: Price{10, 1, 0}.div(Price{1, 1, 0}) yields a Price with
\* price field 10, conf field 11 and expo -9.
C19_FieldsAsStated ==
    DivTenByOne =>
        /\ IsSome(result)
        /\ result[1].price = ZOf(10)
        /\ result[1].conf = NOf(11)
        /\ result[1].expo = -9

\* C19, amended: Price{10, 1, 0}.div(Price{1, 1, 0}) yields a Price with
\* price field 10 * 10^9, conf field 11 * 10^9 and expo -9: 10 +- 11.
C19_TenByOne ==
    DivTenByOne =>
        /\ IsSome(result)
        /\ result[1].price = Pos(NMul(NOf(10), PD_SCALE))
        /\ result[1].conf = NMul(NOf(11), PD_SCALE)
        /\ result[1].expo = -9

\* C19 happens: the quotient of 10 +- 1 published at 100 by 1 +- 1 published
\* at -5 was returned.
C19_Witness ==
    /\ DivTenByOne
    /\ self.publish_time = 100 /\ other.publish_time = -5
    /\ IsSome(result)
    /\ result[1].publish_time = -5

(***************************************************************************)
(* scale_to_exponent, continued.                                           *)
(***************************************************************************)
\* C20: if p.scale_to_exponent(e) = Some(r) then r.scale_to_exponent(e) =
\* Some(r).
C20_ScaleIdempotent ==
    (op = "scale_to_exponent" /\ IsSome(result))
        => scale_to_exponent(result[1], target_expo) = result

\* C20 happens: 1234 at exponent 0 was scaled to 12340 at exponent -1, which
\* scaling to -1 leaves as it is.
C20_Witness ==
    /\ op = "scale_to_exponent"
    /\ self.price = ZOf(1234) /\ self.expo = 0 /\ target_expo = -1
    /\ IsSome(result)
    /\ result[1].price = ZOf(12340) /\ result[1].expo = -1
    /\ scale_to_exponent(result[1], -1) = result

(***************************************************************************)
(* Aborts.                                                                 *)
(***************************************************************************)
\* The call did not return: its assertion failed.
Aborted == result = Panic

\* C21: add on two Prices of different expo aborts and returns neither
\* Some(price) nor None, and no other call of any operation aborts.
C21_OnlyAddAborts ==
    /\ (op = "add" /\ self.expo # other.expo)
           => (Aborted /\ ~ IsSome(result) /\ result # None)
    /\ Aborted => (op = "add" /\ self.expo # other.expo)

\* C21 happens: add of 1 +- 1 at exponent 0 and 1 +- 1 at exponent 1
\* aborted.
C21_Witness ==
    /\ op = "add"
    /\ self.price = ZOf(1) /\ self.conf = NOf(1) /\ self.expo = 0
    /\ other.price = ZOf(1) /\ other.conf = NOf(1) /\ other.expo = 1
    /\ Aborted

(***************************************************************************)
(* fraction.                                                               *)
(***************************************************************************)
\* |z| as a signed numeral.
ZAbs(z) == ZMake(FALSE, z.mag)

\* f.price * 10^(f.expo + 20), an integer for the exponents -20 and above
\* that fraction returns.
FractionTimes20(f) == ZMul(f.price, Pos(Pow10(f.expo + 20)))

\* 10^20 * |y| * |f.price * 10^f.expo - x/y| for the fraction f of x and y.
FractionError20(f, x, y) ==
    ZAbs(ZSub(ZMul(FractionTimes20(f), y), ZMul(x, Pos(Pow10(20)))))

\* 10^20 * |y| * 10^-7 * |x/y|
RelativeBound20(x) == ZMul(ZAbs(x), Pos(Pow10(13)))

\* 10^20 * |y| * 10^f.expo, one unit of the last place of f.
LastPlace20(f, y) == ZMul(ZAbs(y), Pos(Pow10(f.expo + 20)))

FractionReturned == op = "fraction" /\ IsSome(result) /\ x2 # ZZero

WithinThreshold(slot) == NLe(clock.slot, NAdd(slot, slot_threshold))

\* C23: get_price_no_older_than(clock, slot_threshold) returns the aggregate
\* price, published at timestamp, when the status is Trading and
\* clock.slot - agg.pub_slot <= slot_threshold, otherwise the previous
\* price, published at prev_timestamp, when clock.slot - prev_slot <=
\* slot_threshold, otherwise None, for all u64 values of clock.slot and
\* slot_threshold, slot_threshold > clock.slot included.
C23_NoOlderThan ==
    op = "get_price_no_older_than" =>
        IF account.agg.status = "Trading" /\ WithinThreshold(account.agg.pub_slot)
        THEN result = Some(AggregatePrice(account))
        ELSE IF WithinThreshold(account.prev_slot)
             THEN result = Some(PreviousPrice(account))
             ELSE None = result

\* C23 does not hold of this call: at slot 1 with a threshold of 3 slots the
\* aggregate price of slot 1 is not returned although the status is Trading,
\* and neither is the previous price of slot 0.
C23_Witness ==
    /\ op = "get_price_no_older_than"
    /\ account.agg.status = "Trading"
    /\ account.agg.pub_slot = NOf(1) /\ account.prev_slot = NZero
    /\ clock.slot = NOf(1) /\ slot_threshold = NOf(3)
    /\ ~ IsSome(result)

(***************************************************************************)
(* mul, continued.                                                         *)
(***************************************************************************)
\* The sum of the exponents of two Prices is an i32.
ExpoSumInI32(p, q) == InI32(ZAdd(ZInt(p.expo), ZInt(q.expo)))

\* The checked operations of mul on the normalized operands p and q, the
\* addition of the exponents apart, all succeed.
MulFits(p, q) ==
    /\ U64CheckedMul(p.price.mag, q.price.mag) # None
    /\ U64CheckedMul(p.conf, q.price.mag) # None
    /\ U64CheckedMul(q.conf, p.price.mag) # None
    /\ MulConf(p.conf, q.price.mag, q.conf, p.price.mag) # None
    /\ InI64(ZMul(p.price, q.price))

\* C24: mul returns None if and only if normalizing one of the operands
\* fails or the sum of the two normalized exponents is no i32; the checked
\* operations on the price magnitude, the sign and the confidence never
\* overflow.
C24_MulBitBudget ==
    op = "mul" =>
        LET n1 == normalize(self)
            n2 == normalize(other)
        IN  IF n1 = None \/ n2 = None THEN result = None
            ELSE /\ MulFits(n1[1], n2[1])
                 /\ result = None <=> ~ ExpoSumInI32(n1[1], n2[1])

\* C24 happens: the product of the largest normalized Price with itself,
\* (2^28 - 1)^2 +- 2 * (2^28 - 1)^2, is returned.
C24_Witness ==
    /\ op = "mul"
    /\ self.price = Pos(MAX_PD_V_U64) /\ self.conf = MAX_PD_V_U64
    /\ other.price = Pos(MAX_PD_V_U64) /\ other.conf = MAX_PD_V_U64
    /\ IsSome(result)
    /\ result[1].price = Pos(NMul(MAX_PD_V_U64, MAX_PD_V_U64))
    /\ result[1].conf = NMulS(NMul(MAX_PD_V_U64, MAX_PD_V_U64), 2, 0)

\* ---------------------------------------------------------------------
\* C25, C26: the valuation price against the amount
\* ---------------------------------------------------------------------

\* The collateral valuation of the recorded call with other deposits.
CollateralAt(d) ==
    get_collateral_valuation_price(self, d, deposits_endpoint,
        rate_discount_initial, rate_discount_final, discount_exponent)

\* The borrow valuation of the recorded call with other borrows.
BorrowAt(b) ==
    get_borrow_valuation_price(self, b, deposits_endpoint,
        rate_discount_initial, rate_discount_final, discount_exponent)

\* C25: with self, deposits_endpoint, the two discount rates (initial >=
\* final) and the exponent fixed and self.price >= 0, the price of the
\* collateral valuation does not increase when the deposits grow: whenever
\* the calls with deposits d1 <= d2 both succeed, the price for d1 is at
\* least the price for d2.
C25_CollateralNonIncreasing ==
    (/\ IsCollateral
     /\ IsSome(result)
     /\ ZLe(ZZero, self.price)
     /\ NLe(rate_discount_final, rate_discount_initial))
        => \A d2 \in ValuationAmounts :
               (NLe(deposits, d2) /\ IsSome(CollateralAt(d2)))
                   => ZLe(CollateralAt(d2)[1].price, result[1].price)

\* C25, its case: a successful collateral valuation of a non-negative price
\* with 0 < deposits < deposits_endpoint and a discount that grows.
C25_Witness ==
    /\ IsCollateral
    /\ IsSome(result)
    /\ ZLt(ZZero, self.price)
    /\ NLt(NZero, deposits)
    /\ NLt(deposits, deposits_endpoint)
    /\ NLt(rate_discount_final, rate_discount_initial)
    /\ \E d2 \in ValuationAmounts : NLt(deposits, d2) /\ IsSome(CollateralAt(d2))

\* C26: with self, borrows_endpoint, the two premium rates (initial <=
\* final) and the exponent fixed and self.price >= 0, the price of the
\* borrow valuation does not decrease when the borrows grow: whenever the
\* calls with borrows b1 <= b2 both succeed, the price for b1 is at most
\* the price for b2.
C26_BorrowNonDecreasing ==
    (/\ IsBorrow
     /\ IsSome(result)
     /\ ZLe(ZZero, self.price)
     /\ NLe(rate_discount_initial, rate_discount_final))
        => \A b2 \in ValuationAmounts :
               (NLe(deposits, b2) /\ IsSome(BorrowAt(b2)))
                   => ZLe(result[1].price, BorrowAt(b2)[1].price)

\* C26, its case: a successful borrow valuation of a non-negative price with
\* borrows below borrows_endpoint and a premium that grows.
C26_Witness ==
    /\ IsBorrow
    /\ IsSome(result)
    /\ ZLt(ZZero, self.price)
    /\ NLt(deposits, deposits_endpoint)
    /\ NLt(rate_discount_initial, rate_discount_final)
    /\ \E b2 \in ValuationAmounts : NLt(deposits, b2) /\ IsSome(BorrowAt(b2))

\* ---------------------------------------------------------------------
\* C27: the work of scale_to_exponent
\* ---------------------------------------------------------------------

IsScale == op = "scale_to_exponent"

\* The distance of the exponents of the recorded call is more than 20.
FarTarget ==
    LET gap == ZSub(ZInt(target_expo), ZInt(self.expo))
    IN  NLt(NOf(20), gap.mag)

\* C27: scale_to_exponent enters the body of its loop at most 20 times, the
\* number of decimal digits of a 64-bit operand, for every Price and every
\* target exponent, however far target_expo is from expo.
C27_IterationsBounded ==
    IsScale => NLe(iterations, NOf(20))

\* C27, its case: a call over a distance of more than 20 exponents whose
\* loop ran and stopped early, on a mantissa that ran out of digits.
C27_Witness ==
    /\ IsScale
    /\ FarTarget
    /\ self.price # ZZero
    /\ NLt(NZero, iterations)
    /\ NLe(iterations, NOf(20))

\* ---------------------------------------------------------------------
\* C28: the calls of add inside the engine
\* ---------------------------------------------------------------------

IsAffine == op = "affine_combination"
IsBasket == op = "price_basket"

\* C28: affine_combination, price_basket, get_collateral_valuation_price
\* and get_borrow_valuation_price never abort, because every add they reach
\* gets two operands of one expo, and a Some result of affine_combination
\* has expo = pre_add_expo.
C28_AddOperandsAligned ==
    /\ (IsAffine \/ IsBasket \/ IsCollateral \/ IsBorrow) => ~ Aborted
    /\ (IsAffine /\ IsSome(result)) => result[1].expo = pre_add_expo

\* C28, its case: affine_combination of two Prices of different expo reached
\* add and returned a Price at pre_add_expo.
C28_Witness ==
    /\ IsAffine
    /\ IsSome(result)
    /\ y1.expo # y2.expo
    /\ y1.expo # pre_add_expo
    /\ y2.expo # pre_add_expo
    /\ result[1].expo = pre_add_expo

\* ---------------------------------------------------------------------
\* C29: the publish_time of affine_combination
\* ---------------------------------------------------------------------

\* C29: the publish_time of a result of affine_combination is the least of
\* y1.publish_time, y2.publish_time and 0, the publish_time of the
\* fractions; it is never positive.
C29_AffinePublishTime ==
    (IsAffine /\ IsSome(result))
        => /\ result[1].publish_time
                  = MinTime(MinTime(y1.publish_time, y2.publish_time), 0)
           /\ result[1].publish_time <= 0

\* C29, its case: affine_combination of two Prices of positive publish_time
\* returned a Price of publish_time 0.
C29_Witness ==
    /\ IsAffine
    /\ IsSome(result)
    /\ y1.publish_time > 0
    /\ y2.publish_time > 0
    /\ result[1].publish_time = 0

\* ---------------------------------------------------------------------
\* C30: the collateral valuation against the oracle price
\* ---------------------------------------------------------------------

\* rate <= 10^(-discount_exponent), a rate of at most 100%.  A u64 is
\* below 10^20.
AtMostWhole(rate, exponent) ==
    IF exponent > 0 THEN rate = NZero
    ELSE IF exponent < -19 THEN TRUE
    ELSE NLe(rate, Pow10(0 - exponent))

\* C30: with self.price >= 0, deposits_endpoint > 0 and rate_discount_final
\* <= rate_discount_initial <= 10^(-discount_exponent), every successful
\* get_collateral_valuation_price returns a price of at most self.price,
\* whatever the deposits.
C30_CollateralAtMostOracle ==
    (/\ IsCollateral
     /\ IsSome(result)
     /\ ZLe(ZZero, self.price)
     /\ NLt(NZero, deposits_endpoint)
     /\ NLe(rate_discount_final, rate_discount_initial)
     /\ AtMostWhole(rate_discount_initial, discount_exponent))
        => ZLe(result[1].price, self.price)

\* C30, its case: a successful collateral valuation of a positive price
\* with discount rates from 100% down to 90% and deposits between 0 and
\* deposits_endpoint, valued below the oracle price.
C30_Witness ==
    /\ IsCollateral
    /\ IsSome(result)
    /\ ZLt(ZZero, self.price)
    /\ NLt(NZero, deposits)
    /\ NLt(deposits, deposits_endpoint)
    /\ rate_discount_initial = NOf(100)
    /\ rate_discount_final = NOf(90)
    /\ discount_exponent = -2
    /\ ZLt(result[1].price, self.price)

====
